---- MODULE Spec2Model ----
(***************************************************************************)
(* Model of the prover bootstrap routines of prover/init.go:               *)
(*   setApprovalAmount, initProofSubmitters, initL1Current.                *)
(* The three routines touch disjoint fields of the Prover, so each has its *)
(* own specification (SpecApproval, SpecSubmitters, SpecL1Current).        *)
(* Optional values (a nil *big.Int, a nil header) are sequences of length  *)
(* at most one: <<>> is nil, <<v>> is the value v.                         *)
(***************************************************************************)
EXTENDS Integers, Sequences, FiniteSets, TLC

\* ---------------------------------------------------------------- bounds
\* largest token amount considered (configured or on-chain allowance)
MaxAmount == 2
\* longest tier catalog returned by GetTiers
MaxTiers == 2
\* highest L1 block number the chain head reaches
MaxL1Height == 1
\* highest L2 block ID considered
MaxBlockID == 1

VARIABLES
    \* --- setApprovalAmount
    cfgAllowance,     \* p.cfg.Allowance: <<>> (nil) or <<amount>>
    chainAllowance,   \* allowance recorded in the TaikoToken contract
    apPc,             \* position inside setApprovalAmount
    allowance,        \* the local `allowance`: <<>> before the read
    apRet,            \* <<>> while running, <<"nil">> or <<error>>
    apLog,            \* calls made on the collaborators during this call
    confirmCh,        \* txSender.TxToConfirmChannel(id): messages in flight
    txPending,        \* the sender holds a transaction it has not confirmed yet
    ctxCancelled,     \* ctx.Done() is closed
    senderStopped,    \* the sender will deliver nothing any more
    \* --- initProofSubmitters
    tiers,            \* p.sharedState.GetTiers(): sequence of tier IDs
    tierIdx,          \* index of the tier the range loop is at
    proofSubmitters,  \* p.proofSubmitters
    producers,        \* every producer constructed during this call
    startLen,         \* Len(p.proofSubmitters) when the call started
    psPc,
    psRet,
    \* --- initL1Current
    l1Head,           \* number of the L1 chain head
    protoGenesisHeight,   \* GenesisHeight held by the protocol contract
    protoLastVerified,    \* LastVerifiedBlockId held by the protocol contract
    l1Origins,        \* the L2 node's L1Origin index: block ID -> <<>> or <<L1 number>>
    argBlockID,       \* the argument as the caller passed it: <<>> (nil) or <<id>>
    startingBlockID,  \* the parameter startingBlockID, reassigned at line 165
    stateVars,        \* the local stateVars: <<>> or <<[GenesisHeight, LastVerifiedBlockId]>>
    originRead,       \* latestVerifiedHeaderL1Origin.L1BlockHash: <<>> or <<hash>>
    genesisHeightL1,  \* p.genesisHeightL1: <<>> or <<n>>
    l1Current,        \* sharedState.l1Current: <<>> or <<header>>
    l1Pc,
    l1Ret,
    l1Log,            \* collaborator calls and SetL1Current calls of this run
    prevRun           \* some successful run before this one: <<>> or <<record>>

apVars == <<cfgAllowance, chainAllowance, apPc, allowance, apRet, apLog,
            confirmCh, txPending, ctxCancelled, senderStopped>>
psVars == <<tiers, tierIdx, proofSubmitters, producers, startLen, psPc, psRet>>
l1Vars == <<l1Head, protoGenesisHeight, protoLastVerified, l1Origins, argBlockID, startingBlockID,
            stateVars, originRead, genesisHeightL1, l1Current, l1Pc, l1Ret, l1Log,
            prevRun>>
vars == <<apVars, psVars, l1Vars>>

\* error values: an error is modelled by its Error() string
RetNil == <<"nil">>
Err(e) == <<e>>

\* =====================================================================
\*  setApprovalAmount
\* =====================================================================
Amounts == 0..MaxAmount
\* p.cfg.Allowance is a *big.Int: nil, or any integer (negative included)
CfgAllowances == {<<>>} \cup {<<a>> : a \in (-1)..MaxAmount}

InitApproval ==
    /\ cfgAllowance = <<>>
    /\ chainAllowance = 0
    /\ apPc = "idle"
    /\ allowance = <<>>
    /\ apRet = <<>>
    /\ apLog = <<>>
    /\ confirmCh = <<>>
    /\ txPending = FALSE
    /\ ctxCancelled = FALSE
    /\ senderStopped = FALSE

\* p.cfg.Allowance == nil || p.cfg.Allowance.Cmp(common.Big0) != 1
AllowanceNotSet(cfg) == cfg = <<>> \/ ~(cfg[1] > 0)

\* variant: the comparison is strict, an equal allowance is approved again
AllowanceSufficientStrict(a, cfg) == a > cfg

\* allowance.Cmp(p.cfg.Allowance) >= 0
AllowanceSufficient(a, cfg) == a >= cfg

\* entry of setApprovalAmount, up to the Allowance call
ApCall ==
    /\ apPc \in {"idle", "done"}
    /\ \E cfg \in CfgAllowances, onchain \in Amounts :
          /\ cfgAllowance' = cfg
          /\ chainAllowance' = onchain
          /\ IF AllowanceNotSet(cfg)
                THEN apPc' = "done" /\ apRet' = RetNil
                ELSE apPc' = "allowance" /\ apRet' = <<>>
    /\ allowance' = <<>>
    /\ apLog' = <<>>
    /\ confirmCh' = <<>>
    /\ txPending' = FALSE
    /\ ctxCancelled' = FALSE
    /\ senderStopped' = FALSE

\* p.rpc.TaikoToken.Allowance(...) and the comparison that follows it
ApCheckAllowance ==
    /\ apPc = "allowance"
    /\ \/ /\ apLog' = Append(apLog, "Allowance:err")
          /\ apPc' = "done"
          /\ apRet' = Err("ErrAllowance")
          /\ UNCHANGED allowance
       \/ /\ apLog' = Append(apLog, "Allowance:ok")
          /\ allowance' = <<chainAllowance>>
          /\ IF AllowanceSufficient(chainAllowance, cfgAllowance[1])
                THEN apPc' = "done" /\ apRet' = RetNil
                ELSE apPc' = "approve" /\ apRet' = <<>>
    /\ UNCHANGED <<cfgAllowance, chainAllowance, confirmCh, txPending,
                   ctxCancelled, senderStopped>>

\* p.txSender.GetOpts(ctx) and p.rpc.TaikoToken.Approve(opts, contract, allowance)
ApApprove ==
    /\ apPc = "approve"
    /\ \/ /\ apLog' = Append(Append(apLog, "GetOpts"), "Approve:err")
          /\ apPc' = "done"
          /\ apRet' = Err("ErrApprove")
       \/ /\ apLog' = Append(Append(apLog, "GetOpts"), "Approve:ok")
          /\ apPc' = "send"
          /\ apRet' = <<>>
    /\ UNCHANGED <<cfgAllowance, chainAllowance, allowance, confirmCh, txPending,
                   ctxCancelled, senderStopped>>

\* p.txSender.SendTransaction(tx)
ApSendTransaction ==
    /\ apPc = "send"
    /\ \/ /\ apLog' = Append(apLog, "SendTransaction:err")
          /\ apPc' = "done"
          /\ apRet' = Err("ErrSend")
          /\ UNCHANGED txPending
       \/ /\ apLog' = Append(apLog, "SendTransaction:ok")
          /\ apPc' = "confirm"
          /\ apRet' = <<>>
          /\ txPending' = TRUE
    /\ UNCHANGED <<cfgAllowance, chainAllowance, allowance, confirmCh,
                   ctxCancelled, senderStopped>>

\* variant: a failed confirmation sends the transaction again
ApOnConfirmErrRetry ==
    /\ apPc' = "send"
    /\ apRet' = <<>>

\* what the call does with a received confirmation carrying an error
ApOnConfirmErr ==
    /\ apPc' = "done"
    /\ apRet' = Err("ErrConfirm")

\* confirm := <-p.txSender.TxToConfirmChannel(id): a plain channel receive
ApAwaitConfirm ==
    /\ apPc = "confirm"
    /\ Len(confirmCh) > 0
    /\ confirmCh' = Tail(confirmCh)
    /\ IF Head(confirmCh) = "err"
          THEN /\ apLog' = Append(apLog, "Confirm:err")
               /\ ApOnConfirmErr
          ELSE /\ apLog' = Append(apLog, "Confirm:ok")
               /\ apPc' = "recheck"
               /\ apRet' = <<>>
    /\ UNCHANGED <<cfgAllowance, chainAllowance, allowance, txPending,
                   ctxCancelled, senderStopped>>

\* the second p.rpc.TaikoToken.Allowance(...) call and the final return
ApRecheckAllowance ==
    /\ apPc = "recheck"
    /\ \/ /\ apLog' = Append(apLog, "Allowance:err")
          /\ apRet' = Err("ErrAllowance")
          /\ UNCHANGED allowance
       \/ /\ apLog' = Append(apLog, "Allowance:ok")
          /\ allowance' = <<chainAllowance>>
          /\ apRet' = RetNil
    /\ apPc' = "done"
    /\ UNCHANGED <<cfgAllowance, chainAllowance, confirmCh, txPending,
                   ctxCancelled, senderStopped>>

\* the Sender delivers {Receipt, Err} exactly once per id
SenderConfirm ==
    /\ txPending
    /\ ~senderStopped
    /\ txPending' = FALSE
    /\ \E outcome \in {"ok", "err"} : confirmCh' = Append(confirmCh, outcome)
    /\ UNCHANGED <<cfgAllowance, chainAllowance, apPc, allowance, apRet, apLog,
                   ctxCancelled, senderStopped>>

\* the process-wide shutdown signal
CancelCtx ==
    /\ apPc \notin {"idle", "done"}
    /\ ~ctxCancelled
    /\ ctxCancelled' = TRUE
    /\ UNCHANGED <<cfgAllowance, chainAllowance, apPc, allowance, apRet, apLog,
                   confirmCh, txPending, senderStopped>>

\* the Sender stops working (its loop ends with the context)
SenderStop ==
    /\ ctxCancelled
    /\ ~senderStopped
    /\ senderStopped' = TRUE
    /\ UNCHANGED <<cfgAllowance, chainAllowance, apPc, allowance, apRet, apLog,
                   confirmCh, txPending, ctxCancelled>>

ApStep ==
    \/ ApCheckAllowance
    \/ ApApprove
    \/ ApSendTransaction
    \/ ApAwaitConfirm
    \/ ApRecheckAllowance

NextApproval ==
    \/ (ApCall /\ UNCHANGED <<psVars, l1Vars>>)
    \/ (ApCheckAllowance /\ UNCHANGED <<psVars, l1Vars>>)
    \/ (ApApprove /\ UNCHANGED <<psVars, l1Vars>>)
    \/ (ApSendTransaction /\ UNCHANGED <<psVars, l1Vars>>)
    \/ (ApAwaitConfirm /\ UNCHANGED <<psVars, l1Vars>>)
    \/ (ApRecheckAllowance /\ UNCHANGED <<psVars, l1Vars>>)
    \/ (SenderConfirm /\ UNCHANGED <<psVars, l1Vars>>)
    \/ (CancelCtx /\ UNCHANGED <<psVars, l1Vars>>)
    \/ (SenderStop /\ UNCHANGED <<psVars, l1Vars>>)

\* =====================================================================
\*  initProofSubmitters
\* =====================================================================
TierOptimisticID == 100
TierSgxID == 200
TierGuardianID == 1000
\* tier IDs a catalog may hold: the three known ones and one the switch does not know
TierIDs == {TierOptimisticID, TierSgxID, TierGuardianID} \cup {300}

RECURSIVE SeqsUpTo(_, _)
SeqsUpTo(S, n) ==
    IF n = 0 THEN {<<>>}
    ELSE LET shorter == SeqsUpTo(S, n - 1)
         IN  shorter \cup {Append(q, x) : q \in {r \in shorter : Len(r) = n - 1}, x \in S}

TierCatalogs == SeqsUpTo(TierIDs, MaxTiers)

InitSubmitters ==
    /\ tiers = <<>>
    /\ tierIdx = 1
    /\ proofSubmitters = <<>>
    /\ producers = <<>>
    /\ startLen = 0
    /\ psPc = "idle"
    /\ psRet = <<>>

\* variant: the default case builds an optimistic producer
ProducerForDefaultOptimistic(id) ==
    CASE id = TierSgxID      -> <<"SGXProofProducer">>
      [] id = TierGuardianID -> <<"GuardianProofProducer">>
      [] OTHER               -> <<"OptimisticProofProducer">>

\* variant: the SGX and Guardian cases are swapped
ProducerForSwapped(id) ==
    CASE id = TierOptimisticID -> <<"OptimisticProofProducer">>
      [] id = TierSgxID        -> <<"GuardianProofProducer">>
      [] id = TierGuardianID   -> <<"SGXProofProducer">>
      [] OTHER                 -> <<>>

\* switch tier.ID: the producer variant, <<>> for the default case
ProducerFor(id) ==
    CASE id = TierOptimisticID -> <<"OptimisticProofProducer">>
      [] id = TierSgxID        -> <<"SGXProofProducer">>
      [] id = TierGuardianID   -> <<"GuardianProofProducer">>
      [] OTHER                 -> <<>>

\* proofSubmitter.NewProofSubmitter(p.rpc, producer, ...): the submitter wrapping producer
NewProofSubmitter(id, producer) == [tier |-> id, producer |-> producer]

\* entry of initProofSubmitters: p.sharedState.GetTiers() is ranged over
PsCall ==
    /\ psPc \in {"idle", "done"}
    /\ Len(proofSubmitters) <= MaxTiers
    /\ \E catalog \in TierCatalogs : tiers' = catalog
    /\ tierIdx' = 1
    /\ producers' = <<>>
    /\ startLen' = Len(proofSubmitters)
    /\ psPc' = "loop"
    /\ psRet' = <<>>
    /\ UNCHANGED proofSubmitters

\* one iteration of the range loop whose tier ID the switch does not know
PsUnsupportedTier ==
    /\ psPc = "loop"
    /\ tierIdx <= Len(tiers)
    /\ ProducerFor(tiers[tierIdx]) = <<>>
    /\ psPc' = "done"
    /\ psRet' = Err("unsupported tier")
    /\ UNCHANGED <<tiers, tierIdx, proofSubmitters, producers, startLen>>

\* one iteration of the range loop for a known tier: producer, submitter, append
PsBuildSubmitter ==
    /\ psPc = "loop"
    /\ tierIdx <= Len(tiers)
    /\ ProducerFor(tiers[tierIdx]) # <<>>
    /\ LET id == tiers[tierIdx]
           producer == ProducerFor(id)[1]
       IN  /\ producers' = Append(producers, [tier |-> id, producer |-> producer])
           /\ \/ /\ psPc' = "done"
                 /\ psRet' = Err("ErrNewProofSubmitter")
                 /\ UNCHANGED <<proofSubmitters, tierIdx>>
              \/ /\ proofSubmitters' = Append(proofSubmitters, NewProofSubmitter(id, producer))
                 /\ tierIdx' = tierIdx + 1
                 /\ UNCHANGED <<psPc, psRet>>
    /\ UNCHANGED <<tiers, startLen>>

\* the range loop is over: return nil
PsReturn ==
    /\ psPc = "loop"
    /\ tierIdx > Len(tiers)
    /\ psPc' = "done"
    /\ psRet' = RetNil
    /\ UNCHANGED <<tiers, tierIdx, proofSubmitters, producers, startLen>>

\* a new Prover value: its proofSubmitters field is empty
PsNewProver ==
    /\ psPc = "done"
    /\ Len(proofSubmitters) > 0
    /\ proofSubmitters' = <<>>
    /\ psPc' = "idle"
    /\ psRet' = <<>>
    /\ producers' = <<>>
    /\ startLen' = 0
    /\ tiers' = <<>>
    /\ tierIdx' = 1

NextSubmitters ==
    \/ (PsCall /\ UNCHANGED <<apVars, l1Vars>>)
    \/ (PsUnsupportedTier /\ UNCHANGED <<apVars, l1Vars>>)
    \/ (PsBuildSubmitter /\ UNCHANGED <<apVars, l1Vars>>)
    \/ (PsReturn /\ UNCHANGED <<apVars, l1Vars>>)
    \/ (PsNewProver /\ UNCHANGED <<apVars, l1Vars>>)

\* =====================================================================
\*  initL1Current
\* =====================================================================
BlockIDs == 0..MaxBlockID
\* the argument startingBlockID *big.Int
StartingArgs == {<<>>} \cup {<<b>> : b \in BlockIDs}

\* an L1 header is determined by its number on the canonical chain; its hash names it
HashOf(n) == <<"hash", n>>
Header(n) == [Number |-> n, Hash |-> HashOf(n)]

\* ethereum.NotFound.Error()
NotFound == "not found"
RpcError == "rpc error"

Entry(call, res) == [call |-> call, res |-> res]

InitL1Current ==
    /\ protoGenesisHeight \in 0..MaxL1Height
    /\ l1Head = protoGenesisHeight
    /\ protoLastVerified = 0
    /\ l1Origins = [b \in BlockIDs |-> <<>>]
    /\ argBlockID = <<>>
    /\ startingBlockID = <<>>
    /\ stateVars = <<>>
    /\ originRead = <<>>
    /\ genesisHeightL1 = <<>>
    /\ l1Current = <<>>
    /\ l1Pc = "idle"
    /\ l1Ret = <<>>
    /\ l1Log = <<>>
    /\ prevRun = <<>>

l1Env == <<l1Head, protoGenesisHeight, protoLastVerified, l1Origins>>

\* what a finished successful run leaves for the comparison with a later run
RunRecord ==
    [arg |-> argBlockID,
     genesisHeight |-> stateVars[1].GenesisHeight,
     lastVerified |-> stateVars[1].LastVerifiedBlockId,
     fallback |-> \E i \in 1..Len(l1Log) : l1Log[i] = Entry("L1OriginByID", NotFound),
     l1Current |-> l1Current]

\* p.sharedState.SetL1Current(header)
SetL1Current(header, log) ==
    /\ l1Current' = <<header>>
    /\ l1Log' = Append(log, Entry("SetL1Current", "ok"))

\* a return of initL1Current with error err, SetL1Current not called
L1Fail(err, log) ==
    /\ l1Pc' = "done"
    /\ l1Ret' = Err(err)
    /\ l1Log' = log
    /\ UNCHANGED l1Current

\* a start of the prover process calls initL1Current once, on a fresh SharedState
L1Call ==
    /\ l1Pc \in {"idle", "done"}
    /\ \E arg \in StartingArgs :
          /\ argBlockID' = arg
          /\ startingBlockID' = arg
    /\ prevRun' \in {prevRun} \cup (IF l1Pc = "done" /\ l1Ret = RetNil THEN {<<RunRecord>>} ELSE {})
    /\ stateVars' = <<>>
    /\ originRead' = <<>>
    /\ genesisHeightL1' = <<>>
    /\ l1Current' = <<>>
    /\ l1Pc' = "sync"
    /\ l1Ret' = <<>>
    /\ l1Log' = <<>>
    /\ UNCHANGED l1Env

\* p.rpc.WaitTillL2ExecutionEngineSynced(p.ctx)
L1WaitSynced ==
    /\ l1Pc = "sync"
    /\ \/ L1Fail(RpcError, Append(l1Log, Entry("WaitTillL2ExecutionEngineSynced", RpcError)))
       \/ /\ l1Log' = Append(l1Log, Entry("WaitTillL2ExecutionEngineSynced", "ok"))
          /\ l1Pc' = "stateVars"
          /\ UNCHANGED <<l1Ret, l1Current>>
    /\ UNCHANGED <<l1Env, argBlockID, startingBlockID, stateVars, originRead,
                   genesisHeightL1, prevRun>>

\* startingBlockID == nil && stateVars.B.LastVerifiedBlockId == 0
TakesGenesisBranch(start, lastVerified) == start = <<>> /\ lastVerified = 0

\* p.rpc.GetProtocolStateVariables(...), p.genesisHeightL1 = ..., and the choice of
\* the starting block ID
L1GetStateVars ==
    /\ l1Pc = "stateVars"
    /\ \/ /\ L1Fail(RpcError, Append(l1Log, Entry("GetProtocolStateVariables", RpcError)))
          /\ UNCHANGED <<stateVars, genesisHeightL1, startingBlockID>>
       \/ /\ l1Log' = Append(l1Log, Entry("GetProtocolStateVariables", "ok"))
          /\ stateVars' = <<[GenesisHeight |-> protoGenesisHeight,
                             LastVerifiedBlockId |-> protoLastVerified]>>
          /\ genesisHeightL1' = <<protoGenesisHeight>>
          /\ IF TakesGenesisBranch(startingBlockID, protoLastVerified)
                THEN l1Pc' = "genesisHeader" /\ UNCHANGED startingBlockID
                ELSE /\ l1Pc' = "originLookup"
                     /\ startingBlockID' = IF startingBlockID = <<>>
                                              THEN <<protoLastVerified>>
                                              ELSE startingBlockID
          /\ UNCHANGED <<l1Ret, l1Current>>
    /\ UNCHANGED <<l1Env, argBlockID, originRead, prevRun>>

\* p.rpc.L1.HeaderByNumber(p.ctx, GenesisHeight), SetL1Current, return nil
L1GenesisHeader ==
    /\ l1Pc = "genesisHeader"
    /\ \/ \E err \in {RpcError, NotFound} :
             L1Fail(err, Append(l1Log, Entry("HeaderByNumber", err)))
       \/ /\ stateVars[1].GenesisHeight <= l1Head
          /\ SetL1Current(Header(stateVars[1].GenesisHeight),
                          Append(l1Log, Entry("HeaderByNumber", "ok")))
          /\ l1Pc' = "done"
          /\ l1Ret' = RetNil
    /\ UNCHANGED <<l1Env, argBlockID, startingBlockID, stateVars, originRead,
                   genesisHeightL1, prevRun>>

\* variant: "not found" is returned like any other error
L1OnOriginNotFoundFatal ==
    L1Fail(NotFound, Append(l1Log, Entry("L1OriginByID", NotFound)))

\* err.Error() == ethereum.NotFound.Error(): warn and go on to the L1 head
L1OnOriginNotFound ==
    /\ l1Pc' = "headLookup"
    /\ l1Ret' = <<>>
    /\ l1Log' = Append(l1Log, Entry("L1OriginByID", NotFound))
    /\ UNCHANGED l1Current

\* p.rpc.L2.L1OriginByID(p.ctx, startingBlockID) and the dispatch on its error
L1OriginLookup ==
    /\ l1Pc = "originLookup"
    /\ \/ /\ l1Origins[startingBlockID[1]] = <<>>
          /\ L1OnOriginNotFound
          /\ UNCHANGED originRead
       \/ /\ L1Fail(RpcError, Append(l1Log, Entry("L1OriginByID", RpcError)))
          /\ UNCHANGED originRead
       \/ /\ l1Origins[startingBlockID[1]] # <<>>
          /\ originRead' = <<HashOf(l1Origins[startingBlockID[1]][1])>>
          /\ l1Log' = Append(l1Log, Entry("L1OriginByID", "ok"))
          /\ l1Pc' = "headerByHash"
          /\ UNCHANGED <<l1Ret, l1Current>>
    /\ UNCHANGED <<l1Env, argBlockID, startingBlockID, stateVars, genesisHeightL1, prevRun>>

\* variant: the fallback returns nil without calling SetL1Current
L1HeadLookupNoSet ==
    /\ l1Pc = "headLookup"
    /\ \/ \E err \in {RpcError, NotFound} :
             L1Fail(err, Append(l1Log, Entry("HeaderByNumber", err)))
       \/ /\ l1Log' = Append(l1Log, Entry("HeaderByNumber", "ok"))
          /\ l1Pc' = "done"
          /\ l1Ret' = RetNil
          /\ UNCHANGED l1Current
    /\ UNCHANGED <<l1Env, argBlockID, startingBlockID, stateVars, originRead,
                   genesisHeightL1, prevRun>>

\* p.rpc.L1.HeaderByNumber(p.ctx, nil), SetL1Current(l1Head), return nil
L1HeadLookup ==
    /\ l1Pc = "headLookup"
    /\ \/ \E err \in {RpcError, NotFound} :
             L1Fail(err, Append(l1Log, Entry("HeaderByNumber", err)))
       \/ /\ SetL1Current(Header(l1Head), Append(l1Log, Entry("HeaderByNumber", "ok")))
          /\ l1Pc' = "done"
          /\ l1Ret' = RetNil
    /\ UNCHANGED <<l1Env, argBlockID, startingBlockID, stateVars, originRead,
                   genesisHeightL1, prevRun>>

\* variant: SetL1Current is called before the error of HeaderByHash is looked at
L1HeaderByHashSetsBeforeCheck ==
    /\ l1Pc = "headerByHash"
    /\ \/ \E err \in {RpcError, NotFound} :
             /\ l1Log' = Append(Append(l1Log, Entry("HeaderByHash", err)),
                                Entry("SetL1Current", "ok"))
             /\ l1Current' = <<>>
             /\ l1Pc' = "done"
             /\ l1Ret' = Err(err)
       \/ \E n \in 0..l1Head :
             /\ HashOf(n) = originRead[1]
             /\ SetL1Current(Header(n), Append(l1Log, Entry("HeaderByHash", "ok")))
             /\ l1Pc' = "done"
             /\ l1Ret' = RetNil
    /\ UNCHANGED <<l1Env, argBlockID, startingBlockID, stateVars, originRead,
                   genesisHeightL1, prevRun>>

\* variant: the origin's hash is ignored and the L1 head is used
L1HeaderByHashUsesHead ==
    /\ l1Pc = "headerByHash"
    /\ \/ \E err \in {RpcError, NotFound} :
             L1Fail(err, Append(l1Log, Entry("HeaderByHash", err)))
       \/ /\ SetL1Current(Header(l1Head), Append(l1Log, Entry("HeaderByHash", "ok")))
          /\ l1Pc' = "done"
          /\ l1Ret' = RetNil
    /\ UNCHANGED <<l1Env, argBlockID, startingBlockID, stateVars, originRead,
                   genesisHeightL1, prevRun>>

\* p.rpc.L1.HeaderByHash(p.ctx, origin.L1BlockHash), SetL1Current, return nil
L1HeaderByHash ==
    /\ l1Pc = "headerByHash"
    /\ \/ \E err \in {RpcError, NotFound} :
             L1Fail(err, Append(l1Log, Entry("HeaderByHash", err)))
       \/ \E n \in 0..l1Head :
             /\ HashOf(n) = originRead[1]
             /\ SetL1Current(Header(n), Append(l1Log, Entry("HeaderByHash", "ok")))
             /\ l1Pc' = "done"
             /\ l1Ret' = RetNil
    /\ UNCHANGED <<l1Env, argBlockID, startingBlockID, stateVars, originRead,
                   genesisHeightL1, prevRun>>

l1Prog == <<argBlockID, startingBlockID, stateVars, originRead, genesisHeightL1,
            l1Current, l1Pc, l1Ret, l1Log, prevRun>>

\* the L1 chain grows by a block
L1NewBlock ==
    /\ l1Head < MaxL1Height
    /\ l1Head' = l1Head + 1
    /\ UNCHANGED <<protoGenesisHeight, protoLastVerified, l1Origins, l1Prog>>

\* the protocol verifies the next L2 block
L2BlockVerified ==
    /\ protoLastVerified < MaxBlockID
    /\ protoLastVerified' = protoLastVerified + 1
    /\ UNCHANGED <<protoGenesisHeight, l1Head, l1Origins, l1Prog>>

\* the L2 node catches up: it records the L1 origin of one more L2 block, once
L2IndexOrigin ==
    /\ \E b \in BlockIDs, n \in protoGenesisHeight..l1Head :
          /\ l1Origins[b] = <<>>
          /\ l1Origins' = [l1Origins EXCEPT ![b] = <<n>>]
    /\ UNCHANGED <<protoGenesisHeight, protoLastVerified, l1Head, l1Prog>>

NextL1Current ==
    \/ (L1Call /\ UNCHANGED <<apVars, psVars>>)
    \/ (L1WaitSynced /\ UNCHANGED <<apVars, psVars>>)
    \/ (L1GetStateVars /\ UNCHANGED <<apVars, psVars>>)
    \/ (L1GenesisHeader /\ UNCHANGED <<apVars, psVars>>)
    \/ (L1OriginLookup /\ UNCHANGED <<apVars, psVars>>)
    \/ (L1HeadLookup /\ UNCHANGED <<apVars, psVars>>)
    \/ (L1HeaderByHash /\ UNCHANGED <<apVars, psVars>>)
    \/ (L1NewBlock /\ UNCHANGED <<apVars, psVars>>)
    \/ (L2BlockVerified /\ UNCHANGED <<apVars, psVars>>)
    \/ (L2IndexOrigin /\ UNCHANGED <<apVars, psVars>>)

\* =====================================================================
\*  specifications
\* =====================================================================
Init == InitApproval /\ InitSubmitters /\ InitL1Current

SpecApproval == Init /\ [][NextApproval]_vars
SpecSubmitters == Init /\ [][NextSubmitters]_vars
SpecL1Current == Init /\ [][NextL1Current]_vars

\* the goroutine running setApprovalAmount is scheduled whenever it can take a step
FairSpecApproval == SpecApproval /\ WF_vars(ApStep /\ UNCHANGED <<psVars, l1Vars>>)

\* =====================================================================
\*  properties
\* =====================================================================
Has(log, e) == \E i \in 1..Len(log) : log[i] = e
Count(log, e) == Cardinality({i \in 1..Len(log) : log[i] = e})
CountCall(log, call) == Cardinality({i \in 1..Len(log) : log[i].call = call})

\* ---- initL1Current

\* the starting block ID of the run: the argument when given, else lastVerifiedBlockID
EffectiveStartID ==
    IF argBlockID # <<>> THEN argBlockID[1] ELSE stateVars[1].LastVerifiedBlockId

L1Succeeded == l1Pc = "done" /\ l1Ret = RetNil
L1Failed == l1Pc = "done" /\ l1Ret # RetNil
OriginNotFound == Entry("L1OriginByID", NotFound)

\* C1: a successful run whose starting block ID is zero (the argument 0, or no
\* argument and lastVerifiedBlockID 0) leaves l1Current at the L1 header of
\* genesisHeightL1 and has made no L1-origin lookup.
C1_ZeroStartResolvesToGenesis ==
    (L1Succeeded /\ EffectiveStartID = 0)
        => /\ l1Current = <<Header(stateVars[1].GenesisHeight)>>
           /\ CountCall(l1Log, "L1OriginByID") = 0

\* C2: when a run returns after the L1-origin lookup for a nonzero starting block ID
\* reported "not found", then if the L1 head query succeeded the run returns nil with
\* l1Current the L1 head of that moment, and otherwise it returns the head query's
\* error: the "not found" itself is never what the run fails with.
C2_OriginNotFoundFallsBackToHead ==
    [][(l1Pc # "done" /\ l1Pc' = "done" /\ Has(l1Log', OriginNotFound)
            /\ startingBlockID # <<>> /\ startingBlockID[1] # 0)
        => IF Has(l1Log', Entry("HeaderByNumber", "ok"))
              THEN l1Ret' = RetNil /\ l1Current' = <<Header(l1Head)>>
              ELSE \E e \in {RpcError, NotFound} :
                      /\ l1Log'[Len(l1Log')] = Entry("HeaderByNumber", e)
                      /\ l1Ret' = Err(e)]_vars

C2_Witness ==
    /\ L1Succeeded
    /\ Has(l1Log, OriginNotFound)
    /\ startingBlockID[1] # 0
    /\ l1Current = <<Header(l1Head)>>
    /\ l1Head > stateVars[1].GenesisHeight

\* C3: every failed collaborator call other than an L1-origin "not found" ends the
\* run at once with that call's error, SetL1Current has not been called and
\* l1Current is as the run found it; and a run returns an error only that way.
C3_FailuresReturnAndLeaveCursor ==
    /\ \A i \in 1..Len(l1Log) :
          (l1Log[i].res # "ok" /\ l1Log[i] # OriginNotFound)
              => /\ i = Len(l1Log)
                 /\ l1Pc = "done"
                 /\ l1Ret = Err(l1Log[i].res)
    /\ L1Failed
          => /\ Len(l1Log) > 0
             /\ l1Log[Len(l1Log)].res # "ok"
             /\ l1Log[Len(l1Log)] # OriginNotFound
             /\ l1Ret = Err(l1Log[Len(l1Log)].res)
             /\ CountCall(l1Log, "SetL1Current") = 0
             /\ l1Current = <<>>

C3_Witness ==
    /\ L1Failed
    /\ l1Ret = Err(NotFound)
    /\ l1Log[Len(l1Log)] = Entry("HeaderByHash", NotFound)
    /\ l1Current = <<>>

\* C4: SetL1Current is never called twice in a run; a run that returned nil has
\* called it exactly once, as its last step, after the sync wait and the protocol
\* state read both succeeded.
C4_CursorSetExactlyOnce ==
    /\ CountCall(l1Log, "SetL1Current") <= 1
    /\ L1Succeeded
          => /\ CountCall(l1Log, "SetL1Current") = 1
             /\ Len(l1Log) >= 3
             /\ l1Log[Len(l1Log)].call = "SetL1Current"
             /\ l1Log[1] = Entry("WaitTillL2ExecutionEngineSynced", "ok")
             /\ l1Log[2] = Entry("GetProtocolStateVariables", "ok")
             /\ l1Current # <<>>

C4_Witness ==
    /\ L1Succeeded
    /\ Has(l1Log, OriginNotFound)
    /\ prevRun # <<>>
    /\ ~prevRun[1].fallback
    /\ prevRun[1].arg # <<>>

\* the earlier successful run recorded in prevRun had the inputs of this one
SameInputsAsPrevRun ==
    /\ prevRun # <<>>
    /\ prevRun[1].arg = argBlockID
    /\ prevRun[1].genesisHeight = stateVars[1].GenesisHeight
    /\ prevRun[1].lastVerified = stateVars[1].LastVerifiedBlockId

\* C5 (as claimed): two successful runs with the same argument and the same protocol
\* state leave the same l1Current, the "not found" branch included.
C5_BootstrapIdempotent ==
    (L1Succeeded /\ SameInputsAsPrevRun) => l1Current = prevRun[1].l1Current

\* C5 (amended): two successful runs with the same argument and the same protocol
\* state leave the same l1Current when neither of them fell back to the L1 head.
C5_IdempotentWithoutFallback ==
    (L1Succeeded /\ SameInputsAsPrevRun
        /\ ~prevRun[1].fallback /\ ~Has(l1Log, OriginNotFound))
        => l1Current = prevRun[1].l1Current

C5_Witness ==
    /\ L1Succeeded
    /\ SameInputsAsPrevRun
    /\ ~prevRun[1].fallback
    /\ Has(l1Log, Entry("HeaderByHash", "ok"))
    /\ l1Current = prevRun[1].l1Current
    /\ l1Current # <<Header(l1Head)>>

\* ---- initProofSubmitters

KnownTierIDs == {TierOptimisticID, TierSgxID, TierGuardianID}
UnknownAt == {i \in 1..Len(tiers) : tiers[i] \notin KnownTierIDs}
FirstUnknown == CHOOSE i \in UnknownAt : \A j \in UnknownAt : i <= j
NoneBuiltForUnknown ==
    /\ \A i \in 1..Len(producers) : producers[i].tier \in KnownTierIDs
    /\ \A i \in 1..Len(proofSubmitters) : proofSubmitters[i].tier \in KnownTierIDs

\* C6 (as claimed): with an unknown tier ID anywhere in the catalog the call returns
\* the "unsupported tier" error, and nothing is built for the unknown tier.
C6_UnknownTierIsUnsupportedError ==
    (psPc = "done" /\ UnknownAt # {})
        => psRet = Err("unsupported tier") /\ NoneBuiltForUnknown

\* C6 (amended): with an unknown tier ID anywhere in the catalog the call returns an
\* error: "unsupported tier" when the loop reaches the first unknown tier, or the
\* error of NewProofSubmitter for a tier before it; nothing is ever built for an
\* unknown tier.
C6_UnknownTierAlwaysFails ==
    /\ NoneBuiltForUnknown
    /\ (psPc = "done" /\ UnknownAt # {})
          => /\ psRet # RetNil
             /\ tierIdx <= FirstUnknown
             /\ IF tierIdx = FirstUnknown
                   THEN psRet = Err("unsupported tier")
                   ELSE psRet = Err("ErrNewProofSubmitter")

C6_Witness ==
    /\ psPc = "done"
    /\ psRet = Err("unsupported tier")
    /\ Len(tiers) > 1
    /\ UnknownAt = {Len(tiers)}
    /\ Len(proofSubmitters) = startLen + Len(tiers) - 1

\* the producer variant that matches a tier ID
MatchingProducer(id) ==
    IF id = TierOptimisticID THEN "OptimisticProofProducer"
    ELSE IF id = TierSgxID THEN "SGXProofProducer"
    ELSE "GuardianProofProducer"

\* C10: a call that started from an empty proofSubmitters list and returned nil
\* leaves one submitter per tier, in catalog order, each wrapping the producer
\* variant of its tier; a call that failed at tier k leaves the submitters of the
\* tiers before k.
C10_SubmittersFollowCatalog ==
    (psPc = "done" /\ startLen = 0)
        => /\ Len(proofSubmitters) = IF psRet = RetNil THEN Len(tiers) ELSE tierIdx - 1
           /\ psRet # RetNil => tierIdx <= Len(tiers)
           /\ \A i \in 1..Len(proofSubmitters) :
                 /\ proofSubmitters[i].tier = tiers[i]
                 /\ proofSubmitters[i].producer = MatchingProducer(tiers[i])

C10_Witness ==
    /\ psPc = "done"
    /\ psRet = RetNil
    /\ startLen = 0
    /\ Len(tiers) = MaxTiers
    /\ tiers[1] = TierGuardianID
    /\ tiers[2] = TierSgxID
    /\ Len(proofSubmitters) = MaxTiers

\* ---- setApprovalAmount

\* the Allowance call at the head of the run answered with less than is configured
AllowanceTooLow ==
    /\ Len(apLog) > 0
    /\ apLog[1] = "Allowance:ok"
    /\ allowance[1] < cfgAllowance[1]

\* C7: once the Allowance call has answered with an allowance greater than or equal
\* to the (positive) configured one, the call has returned nil and has built no
\* Approve transaction, called neither GetOpts nor SendTransaction and awaited no
\* confirmation.
C7_SufficientAllowanceSendsNothing ==
    (Len(apLog) > 0 /\ apLog[1] = "Allowance:ok" /\ allowance[1] >= cfgAllowance[1])
        => /\ apPc = "done"
           /\ apRet = RetNil
           /\ apLog = <<"Allowance:ok">>
           /\ ~txPending
           /\ confirmCh = <<>>

C7_Witness ==
    /\ apPc = "done"
    /\ apRet = RetNil
    /\ apLog = <<"Allowance:ok">>
    /\ cfgAllowance[1] > 0
    /\ allowance = cfgAllowance

SendCalls == Count(apLog, "SendTransaction:ok") + Count(apLog, "SendTransaction:err")
ReturnsOnlyAfterConfirmation ==
    apRet = RetNil
        => \E i \in 1..Len(apLog), j \in 1..Len(apLog) :
              i < j /\ apLog[i] = "SendTransaction:ok" /\ apLog[j] = "Confirm:ok"
ConfirmErrorIsReturned ==
    Has(apLog, "Confirm:err") => apRet = Err("ErrConfirm") /\ SendCalls = 1

\* C8 (as claimed): a call that found the allowance too low has sent exactly one
\* Approve transaction when it returns; it returns nil only after the confirmation
\* came without error; a confirmation error is returned and nothing is sent again.
C8_ExactlyOneApprovePerCall ==
    (apPc = "done" /\ AllowanceTooLow)
        => /\ Count(apLog, "SendTransaction:ok") = 1
           /\ ReturnsOnlyAfterConfirmation
           /\ ConfirmErrorIsReturned

\* C8 (amended): a call that found the allowance too low calls SendTransaction at
\* most once; when it returns it has sent exactly one Approve transaction unless
\* Approve or SendTransaction failed, and then it returns that error having sent
\* none; it returns nil only after the confirmation came without error; a
\* confirmation error is returned and nothing is sent again.
C8_AtMostOneApprovePerCall ==
    /\ SendCalls <= 1
    /\ (apPc = "done" /\ AllowanceTooLow)
          => /\ Count(apLog, "SendTransaction:ok") # 1
                   => /\ Count(apLog, "SendTransaction:ok") = 0
                      /\ apRet \in {Err("ErrApprove"), Err("ErrSend")}
                      /\ apLog[Len(apLog)] \in {"Approve:err", "SendTransaction:err"}
             /\ ReturnsOnlyAfterConfirmation
             /\ ConfirmErrorIsReturned

C8_Witness ==
    /\ apPc = "done"
    /\ AllowanceTooLow
    /\ apRet = Err("ErrConfirm")
    /\ apLog = <<"Allowance:ok", "GetOpts", "Approve:ok", "SendTransaction:ok", "Confirm:err">>

\* C9: a call blocked on the confirmation channel whose context is cancelled, with a
\* Sender that delivers nothing any more, eventually returns a cancellation error.
C9_CancelledWaitReturns ==
    (apPc = "confirm" /\ ctxCancelled /\ senderStopped /\ confirmCh = <<>>)
        ~> (apPc = "done" /\ apRet = Err("context canceled"))

====
